---------------------------- MODULE Spec2Model ----------------------------
(***************************************************************************)
(* Model of src/excel.py: the product-identifier extraction engine         *)
(* (text normalizer, pattern matchers, denylist, sheet dispatcher, row     *)
(* extractor) and the per-sheet / per-row driver run_on_excel_file.        *)
(*                                                                         *)
(* Python text is a TLA+ string; Ch(s, i) is its i-th character.  A Python *)
(* value is a record [t, v]: t is "none", "str", "int" or "raise" (an      *)
(* exception that propagates to the caller) and v is the text for "str"    *)
(* and the decimal digits for "int".                                       *)
(***************************************************************************)
EXTENDS Integers, Sequences, FiniteSets, TLC

\* ------------------------------------------------------------------------
\* Python values
\* ------------------------------------------------------------------------
None == [t |-> "none", v |-> ""]
Str(s) == [t |-> "str", v |-> s]
Num(d) == [t |-> "int", v |-> d]
Raise == [t |-> "raise", v |-> ""]

\* bool(x): None, "" and 0 are falsy
Truthy(x) ==
    CASE x.t = "none" -> FALSE
      [] x.t = "str" -> x.v # ""
      [] x.t = "int" -> x.v # "0"
      [] OTHER -> TRUE

\* a or b
Or(a, b) == IF Truthy(a) THEN a ELSE b

\* str(x)
PyStr(x) ==
    CASE x.t = "none" -> Str("None")
      [] x.t = "raise" -> Raise
      [] OTHER -> Str(x.v)

\* ------------------------------------------------------------------------
\* Characters and the character classes of the regular expressions
\* ------------------------------------------------------------------------
Ch(s, i) == SubSeq(s, i, i)

UpperSet ==
    {"A", "B", "C", "D", "E", "F", "G", "H", "I", "J", "K", "L", "M",
     "N", "O", "P", "Q", "R", "S", "T", "U", "V", "W", "X", "Y", "Z"}
LowerSet ==
    {"a", "b", "c", "d", "e", "f", "g", "h", "i", "j", "k", "l", "m",
     "n", "o", "p", "q", "r", "s", "t", "u", "v", "w", "x", "y", "z"}
DigitSet == {"0", "1", "2", "3", "4", "5", "6", "7", "8", "9"}

\* \s
IsSpace(c) == c \in {" ", "\t", "\n"}
\* [A-Z0-9]
IsAlnum(c) == c \in UpperSet \/ c \in DigitSet
\* \w, which decides where \b holds
IsWord(c) == c \in UpperSet \/ c \in LowerSet \/ c \in DigitSet \/ c = "_"

\* the character c.upper()
UpperCh(c) ==
    CASE c = "a" -> "A" [] c = "b" -> "B" [] c = "c" -> "C" [] c = "d" -> "D"
          [] c = "e" -> "E" [] c = "f" -> "F" [] c = "g" -> "G" [] c = "h" -> "H"
          [] c = "i" -> "I" [] c = "j" -> "J" [] c = "k" -> "K" [] c = "l" -> "L"
          [] c = "m" -> "M" [] c = "n" -> "N" [] c = "o" -> "O" [] c = "p" -> "P"
          [] c = "q" -> "Q" [] c = "r" -> "R" [] c = "s" -> "S" [] c = "t" -> "T"
          [] c = "u" -> "U" [] c = "v" -> "V" [] c = "w" -> "W" [] c = "x" -> "X"
          [] c = "y" -> "Y" [] c = "z" -> "Z"
      [] OTHER -> c

SetMin(S) == CHOOSE x \in S : \A y \in S : x <= y
SetMax(S) == CHOOSE x \in S : \A y \in S : x >= y

\* str.upper()
Upper(s) ==
    LET F[i \in 0..Len(s)] ==
            IF i = 0 THEN ""
            ELSE F[i - 1] \o UpperCh(Ch(s, i))
    IN F[Len(s)]

\* str.strip()
Strip(s) ==
    LET keep == {i \in 1..Len(s) : ~IsSpace(Ch(s, i))}
    IN IF keep = {} THEN "" ELSE SubSeq(s, SetMin(keep), SetMax(keep))

\* re.sub(r"\s+", " ", s)
CollapseSpace(s) ==
    LET F[i \in 0..Len(s)] ==
            IF i = 0 THEN ""
            ELSE IF IsSpace(Ch(s, i))
                 THEN (IF i > 1 /\ IsSpace(Ch(s, i - 1)) THEN F[i - 1] ELSE F[i - 1] \o " ")
                 ELSE F[i - 1] \o Ch(s, i)
    IN F[Len(s)]

\* [A-Z0-9#\-]
IsIdChar(c) == IsAlnum(c) \/ c = "#" \/ c = "-"
\* [A-Z0-9\-\s]
IsTokenChar(c) == IsAlnum(c) \/ c = "-" \/ IsSpace(c)

\* c is in the character class named cls
InClass(c, cls) ==
    CASE cls = "A-Z0-9" -> IsAlnum(c)
      [] cls = "A-Z0-9#-" -> IsIdChar(c)
      [] cls = "A-Z0-9-s" -> IsTokenChar(c)

\* re.sub(r"[^cls]", rep, s)
SubChars(s, cls, rep) ==
    LET F[i \in 0..Len(s)] ==
            IF i = 0 THEN ""
            ELSE F[i - 1] \o (IF InClass(Ch(s, i), cls) THEN Ch(s, i) ELSE rep)
    IN F[Len(s)]

\* k in s
Contains(s, k) ==
    \E i \in 1..(Len(s) - Len(k) + 1) : SubSeq(s, i, i + Len(k) - 1) = k

\* \b before position i of s (i = Len(s) + 1: the end of the text)
Boundary(s, i) ==
    LET before == i > 1 /\ IsWord(Ch(s, i - 1))
        after == i <= Len(s) /\ IsWord(Ch(s, i))
    IN before # after

\* the index after the longest run of [A-Z0-9] that starts at i
RunEnd(s, i) ==
    LET stops == {j \in i..Len(s) : ~IsAlnum(Ch(s, j))}
    IN IF stops = {} THEN Len(s) + 1 ELSE SetMin(stops)

\* ------------------------------------------------------------------------
\* Text normalizer and pattern matchers
\* ------------------------------------------------------------------------
clean_caps(s) == Upper(Strip(CollapseSpace(s)))

BANNED_TOKENS == {
    "MONITOR","DISPLAY","WINDOWS","SERVER","STANDARD","MICROSOFT","ASUS","LENOVO","HPE","HP",
    "INTEL","NVIDIA","RYZEN","GEFORCE","CORE","DDR","DDR4","DDR5","UHD","FHD","IPS","VA","TN",
    "DOS","ENG","ENGLISH","NEW","AIO","PCS","WORKSTATION","NOTEBOOK","LAPTOP","WUE","G5","G9",
    "BACKLIT","KEYBOARD","MOUSE","WIFI","BT","BLUETOOTH","PCIe","NVME","SSD","HDD","GB","TB",
    "INCH","WARRANTY","YRS","3YRS","1YW","AX","TNR","ID","FLEX","SLOT","HOT","PLUG","LOW",
    "HALOGEN","KIT","POWER","SUPPLY","TITANIUM","PRO","HOME","BUSINESS","LOQ" }

\* the span <<open, close>> of re.search(r"\(([^\)]+)\)", s), <<0, 0>> for no match
ParenSpan(s) ==
    LET closeAfter(i) == {j \in (i + 1)..Len(s) : Ch(s, j) = ")"}
        starts == {i \in 1..Len(s) : /\ Ch(s, i) = "("
                                     /\ closeAfter(i) # {}
                                     /\ SetMin(closeAfter(i)) > i + 1}
    IN IF starts = {} THEN <<0, 0>>
       ELSE <<SetMin(starts), SetMin(closeAfter(SetMin(starts)))>>

find_parenthetical_id(text) ==
    LET s == clean_caps(text)
        m == ParenSpan(s)
        cand == SubChars(SubSeq(s, m[1] + 1, m[2] - 1), "A-Z0-9#-", "")
    IN IF m = <<0, 0>> THEN None
       ELSE IF Len(SubChars(cand, "A-Z0-9", "")) < 5 THEN None
       ELSE Str(cand)

\* the end (exclusive) of a match of \b[0-9A-Z]{5,}(?:#[0-9A-Z]{2,})\b at i, 0 for none
HashMatchEnd(s, i) ==
    LET h == RunEnd(s, i)
        e == RunEnd(s, h + 1)
    IN IF /\ Boundary(s, i)
          /\ h - i >= 5
          /\ h <= Len(s) /\ Ch(s, h) = "#"
          /\ e - (h + 1) >= 2
          /\ Boundary(s, e)
       THEN e ELSE 0

find_hp_monitor_id(text) ==
    LET s == clean_caps(text)
        starts == {i \in 1..Len(s) : HashMatchEnd(s, i) # 0}
    IN IF starts = {} THEN None
       ELSE Str(SubSeq(s, SetMin(starts), HashMatchEnd(s, SetMin(starts)) - 1))

\* the end (exclusive) of a match of \b[A-Z0-9]{5,}\b at i, 0 for none
TokenMatchEnd(s, i) ==
    LET e == RunEnd(s, i)
    IN IF Boundary(s, i) /\ e - i >= 5 /\ Boundary(s, e) THEN e ELSE 0

\* re.findall(r"\b[A-Z0-9]{5,}\b", s): leftmost matches, none overlapping
FindTokens(s) ==
    LET F[i \in 1..(Len(s) + 1)] ==
            IF i > Len(s) THEN <<>>
            ELSE IF TokenMatchEnd(s, i) # 0
                 THEN <<SubSeq(s, i, TokenMatchEnd(s, i) - 1)>> \o F[TokenMatchEnd(s, i)]
                 ELSE F[i + 1]
    IN F[1]

AllDigits(t) == \A i \in 1..Len(t) : Ch(t, i) \in DigitSet
HasLetter(t) == \E i \in 1..Len(t) : Ch(t, i) \in UpperSet
HasDigit(t) == \E i \in 1..Len(t) : Ch(t, i) \in DigitSet
\* ^\d{1,2}YRS$
IsYrs(t) ==
    /\ Len(t) \in {4, 5}
    /\ SubSeq(t, Len(t) - 2, Len(t)) = "YRS"
    /\ AllDigits(SubSeq(t, 1, Len(t) - 3))

\* the body of the filter loop: whether token t is appended to filtered
KeepToken(t) ==
    /\ ~AllDigits(t)
    /\ t \notin BANNED_TOKENS
    /\ ~(Len(t) >= 3 /\ AllDigits(t))
    /\ ~IsYrs(t)
    /\ HasLetter(t) /\ HasDigit(t)

IsPreferred(t) == Ch(t, 1) \in {"P", "U", "S", "E", "A"}

\* PickToken returning from the unfiltered tokens
PickTokenUnfiltered(tokens, filtered) ==
    LET preferred == SelectSeq(tokens, IsPreferred)
    IN IF tokens = <<>> THEN None
       ELSE IF preferred # <<>> THEN Str(preferred[Len(preferred)])
       ELSE Str(tokens[Len(tokens)])

\* PickToken without the preference for a first character of P, U, S, E, A
PickTokenLast(tokens, filtered) ==
    IF filtered = <<>> THEN None ELSE Str(filtered[Len(filtered)])

\* the return of _find_dell_model_like, from tokens and filtered
PickToken(tokens, filtered) ==
    LET preferred == SelectSeq(filtered, IsPreferred)
    IN IF filtered = <<>> THEN None
       ELSE IF preferred # <<>> THEN Str(preferred[Len(preferred)])
       ELSE Str(filtered[Len(filtered)])

find_dell_model_like(text) ==
    LET s == SubChars(clean_caps(text), "A-Z0-9-s", " ")
        tokens == FindTokens(s)
        filtered == SelectSeq(tokens, KeepToken)
    IN PickToken(tokens, filtered)

\* text.split(",")[0]
BeforeFirstComma(text) ==
    LET commas == {i \in 1..Len(text) : Ch(text, i) = ","}
    IN IF commas = {} THEN text ELSE SubSeq(text, 1, SetMin(commas) - 1)

phrase_before_first_comma(text) ==
    IF text = "" THEN None
    ELSE Or(Str(Strip(BeforeFirstComma(text))), None)

generic_from_description(text) ==
    Or(find_parenthetical_id(text), Or(find_hp_monitor_id(text), find_dell_model_like(text)))

\* ------------------------------------------------------------------------
\* Row extractor: a row is the sequence of its <<key, value>> items, in the
\* dictionary's iteration order
\* ------------------------------------------------------------------------
HasKey(r, k) == \E i \in 1..Len(r) : r[i][1] = k
Get(r, k) == r[CHOOSE i \in 1..Len(r) : r[i][1] = k][2]

\* the value the label loop leaves in a field: that of the last key whose
\* normalized text is one of labels, None when there is none
LabelLookup(r, labels) ==
    LET hits == {i \in 1..Len(r) : clean_caps(PyStr(r[i][1]).v) \in labels}
    IN IF hits = {} THEN None ELSE r[SetMax(hits)][2]

DescLabels == {"DESCRIPTION"}
PartLabels == {"PART NUMBER", "PART", "PART NO", "P/N"}
RefLabels == {"REF", "REFERENCE"}

ResolveDesc(r) ==
    LET d == LabelLookup(r, DescLabels)
    IN IF d # None THEN d
       ELSE IF HasKey(r, Num("0")) THEN Get(r, Num("0"))
       ELSE IF Len(r) > 0 THEN r[1][2]
       ELSE None

ResolvePart(r) ==
    LET p == LabelLookup(r, PartLabels)
    IN IF p = None /\ HasKey(r, Num("1")) THEN Get(r, Num("1")) ELSE p

ResolveRef(r) ==
    LET f == LabelLookup(r, RefLabels)
    IN IF f = None /\ HasKey(r, Str("REF")) THEN Get(r, Str("REF")) ELSE f

\* x.strip(): an AttributeError on a value that is no text
PyStrip(x) == IF x.t = "str" THEN Str(Strip(x.v)) ELSE Raise

\* Coerce without the strip
CoerceUnstripped(x) == PyStr(Or(x, Str("")))

\* Coerce as x.strip(), without the default and the conversion to text
CoerceBare(x) == PyStrip(x)

\* str(x or "").strip()
Coerce(x) == PyStrip(PyStr(Or(x, Str(""))))

\* ------------------------------------------------------------------------
\* Sheet dispatcher: sname is the normalized sheet name; d, p, r are the
\* coerced description, part number and reference (texts)
\* ------------------------------------------------------------------------
AnyIn(sname, keys) == \E k \in keys : Contains(sname, k)

\* IsUps as an equality test
IsUpsExact(sname) == sname = "UPS"

\* the conditions of the if statements, in the order of the code
IsUps(sname) == Contains(sname, "UPS")
IsMicrosoftAsus(sname) == Contains(sname, "MICROSOFT") \/ Contains(sname, "ASUS")
IsLenovoNotebook(sname) ==
    Contains(sname, "LENOVO") /\ (Contains(sname, "NOTEBOOK") \/ Contains(sname, "OPTION"))
IsLenovo(sname) == Contains(sname, "LENOVO")
IsHpMonitor(sname) == Contains(sname, "HP") /\ Contains(sname, "MONITOR")
IsHpServer(sname) ==
    Contains(sname, "HP") /\ (Contains(sname, "SERVER") \/ Contains(sname, "PART"))
IsHpNotebook(sname) ==
    Contains(sname, "HP") /\ AnyIn(sname, {"NOTEBOOK", "WORKSTATION", "OPTION"})
IsHpPcs(sname) == Contains(sname, "HP") /\ AnyIn(sname, {"PCS", "AIO", "WORKSTATION"})
IsDell(sname) ==
    Contains(sname, "DELL") /\ (Contains(sname, "MONITOR") \/ Contains(sname, "ACCESSOR"))
IsConsumer(sname) == AnyIn(sname, {"CONSUMER", "AIO", "GAMING"})

\* UpsRule without the "or None"
UpsRuleAsIs(r) == Str(r)

\* HpMonitorRule with the parenthetical matcher first
HpMonitorRuleGeneric(d) == generic_from_description(d)

\* HpNotebookRule with the phrase as the fallback
HpNotebookRuleSwapped(d) == Or(generic_from_description(d), phrase_before_first_comma(d))

\* DefaultRule without the reference
DefaultRuleNoRef(d, p, r) == Or(generic_from_description(d), Or(Str(p), None))

\* the return statements
UpsRule(r) == Or(Str(r), None)
MicrosoftAsusRule(d, p) ==
    Or(generic_from_description(d), IF p # "" /\ Upper(p) # "NEW" THEN Str(p) ELSE None)
LenovoNotebookRule(d, p) == Or(generic_from_description(d), Or(Str(p), None))
LenovoRule(d, p) == Or(generic_from_description(d), Or(Str(p), None))
HpMonitorRule(d) ==
    Or(find_hp_monitor_id(d), Or(find_parenthetical_id(d), find_dell_model_like(d)))
HpServerRule(d) == Or(find_parenthetical_id(d), generic_from_description(d))
HpNotebookRule(d) == Or(phrase_before_first_comma(d), generic_from_description(d))
HpPcsRule(d) == Or(find_parenthetical_id(d), generic_from_description(d))
DellRule(d, p) == Or(generic_from_description(d), Or(Str(p), None))
ConsumerRule(d) == Or(find_parenthetical_id(d), generic_from_description(d))
DefaultRule(d, p, r) == Or(generic_from_description(d), Or(Str(p), Or(Str(r), None)))

Dispatch(sname, d, p, r) ==
    IF IsUps(sname) THEN UpsRule(r)
    ELSE IF IsMicrosoftAsus(sname) THEN MicrosoftAsusRule(d, p)
    ELSE IF IsLenovoNotebook(sname) THEN LenovoNotebookRule(d, p)
    ELSE IF IsLenovo(sname) THEN LenovoRule(d, p)
    ELSE IF IsHpMonitor(sname) THEN HpMonitorRule(d)
    ELSE IF IsHpServer(sname) THEN HpServerRule(d)
    ELSE IF IsHpNotebook(sname) THEN HpNotebookRule(d)
    ELSE IF IsHpPcs(sname) THEN HpPcsRule(d)
    ELSE IF IsDell(sname) THEN DellRule(d, p)
    ELSE IF IsConsumer(sname) THEN ConsumerRule(d)
    ELSE DefaultRule(d, p, r)

\* the whole call: the fields are coerced before the sheet name is tested, and
\* an exception raised there leaves the call
extract_product_id_for_row(name, r) ==
    LET d == Coerce(ResolveDesc(r))
        p == Coerce(ResolvePart(r))
        f == Coerce(ResolveRef(r))
    IN IF Raise \in {d, p, f} THEN Raise
       ELSE Dispatch(clean_caps(name), d.v, p.v, f.v)

\* ------------------------------------------------------------------------
\* Inputs
\* ------------------------------------------------------------------------
\* the most pieces of a description
MaxTokens == 2

Pieces == {"P3424WEB", "U2724D", "X1234Z", "7Y5X9", "Monitor", "12345", "12YRS",
           "DDR4", "AB12", "p2422h", "WX-12345", "(82X700BTAX)", "(AB12)",
           "65P58AS#ABV", "A1_B2345", "24in,", "\t"}

RECURSIVE TextsUpTo(_)
TextsUpTo(n) ==
    IF n = 0 THEN {""}
    ELSE LET prev == TextsUpTo(n - 1)
         IN prev \cup {IF t = "" THEN p ELSE t \o " " \o p : t \in prev, p \in Pieces}

Texts == TextsUpTo(MaxTokens)

\* the most words of a sheet name
MaxWords == 2

SheetWords == <<"UPS", "Microsoft", "ASUS", "Lenovo", "Notebook", "Option", "HP",
                "Monitor", "Server", "Parts", "Workstation", "PCs", "AIO", "Dell",
                "Accessory", "Accessories", "Consumer", "Gaming", "Price">>

\* the names of at most n of the words from the k-th on, in the order of SheetWords
RECURSIVE NamesFrom(_, _)
NamesFrom(k, n) ==
    IF n = 0 THEN {""}
    ELSE {""} \cup UNION {{IF rest = "" THEN SheetWords[i] ELSE SheetWords[i] \o " " \o rest :
                              rest \in NamesFrom(i + 1, n - 1)} : i \in k..Len(SheetWords)}

SheetNames == NamesFrom(1, MaxWords)

LabelledRow(d, p, r) ==
    <<<<Str("Description"), d>>, <<Str("Part Number"), p>>, <<Str("REF"), r>>>>

\* descriptions with a match of every matcher, of some and of none
MatchedDescs == {"65P58AS#ABV HP V24i (9M9D7AT) P2422H", "HP Z2 (9M9D7AT) P2422H",
                 "Dell U2724D 27in", "EliteBook 840 , (9M9D7AT) 16GB",
                 ", (9M9D7AT) spare"}

DispatchRows ==
    {LabelledRow(Str(d), Str("PN-77"), Str(" R9 ")) : d \in MatchedDescs}
    \cup {LabelledRow(Str("Wireless mouse"), Str(p), Str(r)) :
              p \in {"", "New", "PN-77"}, r \in {"", " R9 "}}
    \cup {LabelledRow(Str(""), Str(""), Str("")), LabelledRow(Str(""), Str("New"), Str(" R9 "))}

\* one sheet name or more for every rule of the dispatcher
RuleSheets == {"UPS Accessories", "Lenovo UPS Options", "Groups", "Microsoft Surface",
               "Lenovo Notebook", "Lenovo AIO", "HP Monitor List", "HP Server",
               "hp  workstation", "HP PCs", "Dell Monitors", "Gaming", "Dell Laptops"}

Nan == [t |-> "float", v |-> "nan"]

DescCells == {None, Str(""), Str("  Dell U2724D 27in "), Str(" ZBook Fury , 16GB"),
              Str("(9M9D7AT) 65P58AS#ABV"), Num("0")}
PartCells == {None, Str(""), Str(" new "), Str("PN-77\t"), Num("42")}
RefCells == {None, Str(""), Str("  "), Str(" UPS1234 "), Num("0"), Nan}

\* labelled, headerless, renamed, partial and empty rows
LayoutRows ==
    {LabelledRow(d, p, r) : d \in DescCells, p \in PartCells, r \in RefCells}
    \cup {<<<<Num("0"), d>>, <<Num("1"), p>>>> : d \in DescCells, p \in PartCells}
    \cup {<<<<Str("Item"), d>>, <<Str(" p/n "), p>>, <<Str("Reference"), r>>>> :
              d \in DescCells, p \in PartCells, r \in RefCells}
    \cup {<<<<Str("REF"), r>>>> : r \in RefCells}
    \cup {<<<<Str("REF"), r>>, <<Str("reference"), q>>>> : r \in RefCells, q \in RefCells}
    \cup {<<<<Str("DESCRIPTION"), None>>, <<Num("0"), d>>, <<Str("Part"), None>>,
            <<Num("1"), p>>>> : d \in DescCells, p \in PartCells}
    \cup {<<>>}

\* the most rows of a sheet of the workbook
MaxRows == 2

BookNames == {"HP Monitor List", "UPS", "Dell Laptops"}

\* rows as pandas reads them with dtype=str: text cells, NaN for an empty cell
BookRows == {LabelledRow(Str("65P58AS#ABV HP V24i (9M9D7AT) P2422H"), Str("PN-77"), Str("R9")),
             LabelledRow(Nan, Str("PN-77"), Nan),
             LabelledRow(Str("Wireless mouse"), Nan, Str("R9"))}

RECURSIVE RowLists(_)
RowLists(n) ==
    IF n = 0 THEN {<<>>}
    ELSE LET prev == RowLists(n - 1)
         IN prev \cup {Append(q, r) : q \in prev, r \in BookRows}

\* the sheets of a workbook, in every order: sheet names are the keys of a dict
RECURSIVE Orders(_)
Orders(S) == {<<>>} \cup UNION {{<<n>> \o o : o \in Orders(S \ {n})} : n \in S}

VARIABLES
    \* the matcher _find_dell_model_like
    text, s, tokens, filtered, mres, mpc,
    \* a call of extract_product_id_for_row
    sheet_name, row, sname, desc, part, ref, result, pc,
    \* run_on_excel_file
    xls, si, loop_name, df, applied, written, bpc

mvars == <<text, s, tokens, filtered, mres, mpc>>
evars == <<sheet_name, row, sname, desc, part, ref, result, pc>>
bvars == <<xls, si, loop_name, df, applied, written, bpc>>
vars == <<mvars, evars, bvars>>

MatchIdle ==
    /\ text = "" /\ s = "" /\ tokens = <<>> /\ filtered = <<>> /\ mres = None
    /\ mpc = "idle"

BookIdle ==
    /\ xls = <<>> /\ si = 0 /\ loop_name = "" /\ df = <<>> /\ applied = <<>>
    /\ written = <<>>
    /\ bpc = "idle"

ExtractIdle ==
    /\ sheet_name = "" /\ row = <<>> /\ sname = ""
    /\ desc = None /\ part = None /\ ref = None /\ result = None
    /\ pc = "idle"

\* ------------------------------------------------------------------------
\* _find_dell_model_like, statement by statement
\* ------------------------------------------------------------------------
InitMatch ==
    /\ text \in Texts
    /\ s = ""
    /\ tokens = <<>>
    /\ filtered = <<>>
    /\ mres = None
    /\ mpc = "normalize"
    /\ ExtractIdle
    /\ BookIdle

MNormalize ==
    /\ mpc = "normalize"
    /\ s' = SubChars(clean_caps(text), "A-Z0-9-s", " ")
    /\ mpc' = "findall"
    /\ UNCHANGED <<text, tokens, filtered, mres, evars, bvars>>

MFindAll ==
    /\ mpc = "findall"
    /\ tokens' = FindTokens(s)
    /\ mpc' = "filter"
    /\ UNCHANGED <<text, s, filtered, mres, evars, bvars>>

MFilter ==
    /\ mpc = "filter"
    /\ filtered' = SelectSeq(tokens, KeepToken)
    /\ mpc' = "pick"
    /\ UNCHANGED <<text, s, tokens, mres, evars, bvars>>

MPick ==
    /\ mpc = "pick"
    /\ mres' = PickToken(tokens, filtered)
    /\ mpc' = "done"
    /\ UNCHANGED <<text, s, tokens, filtered, evars, bvars>>

NextMatch == MNormalize \/ MFindAll \/ MFilter \/ MPick

SpecMatch == InitMatch /\ [][NextMatch]_vars

\* ------------------------------------------------------------------------
\* extract_product_id_for_row: field resolution, then the dispatch
\* ------------------------------------------------------------------------
CallInit(names, rows) ==
    /\ sheet_name \in names
    /\ row \in rows
    /\ sname = ""
    /\ desc = None /\ part = None /\ ref = None
    /\ result = None
    /\ pc = "resolve"
    /\ MatchIdle
    /\ BookIdle

\* lines 70-107; an exception raised by a coercion ends the call
ResolveFields ==
    /\ pc = "resolve"
    /\ sname' = clean_caps(sheet_name)
    /\ desc' = Coerce(ResolveDesc(row))
    /\ part' = Coerce(ResolvePart(row))
    /\ ref' = Coerce(ResolveRef(row))
    /\ IF Raise \in {desc', part', ref'}
       THEN result' = Raise /\ pc' = "done"
       ELSE result' = None /\ pc' = "dispatch"
    /\ UNCHANGED <<sheet_name, row, mvars, bvars>>

\* lines 109-150
DispatchRow ==
    /\ pc = "dispatch"
    /\ result' = Dispatch(sname, desc.v, part.v, ref.v)
    /\ pc' = "done"
    /\ UNCHANGED <<sheet_name, row, sname, desc, part, ref, mvars, bvars>>

Next == ResolveFields \/ DispatchRow

\* every sheet name of at most MaxWords words, on labelled rows
Init == CallInit(SheetNames, DispatchRows)
Spec == Init /\ [][Next]_vars

\* every row layout and cell value, on a sheet of every rule
InitRow == CallInit(RuleSheets, LayoutRows)
SpecRow == InitRow /\ [][Next]_vars

\* ------------------------------------------------------------------------
\* run_on_excel_file: every sheet of the workbook, every row of the sheet
\* ------------------------------------------------------------------------
\* df.fillna("", inplace=True)
FillNa(rows) ==
    [j \in 1..Len(rows) |->
        [k \in 1..Len(rows[j]) |->
            <<rows[j][k][1], IF rows[j][k][2] = Nan THEN Str("") ELSE rows[j][k][2]>>]]

\* process_row reading the sheet name only after the loop has ended
process_row_late(name, r) == extract_product_id_for_row(xls[Len(xls)].name, r)

\* the closure process_row: name is sheet_name of the enclosing loop when it is called
process_row(name, r) == extract_product_id_for_row(name, r)

InitBook ==
    /\ \E o \in Orders(BookNames), rows \in RowLists(MaxRows) :
           xls = [k \in 1..Len(o) |-> [name |-> o[k], rows |-> rows]]
    /\ si = 0
    /\ loop_name = ""
    /\ df = <<>>
    /\ applied = <<>>
    /\ written = <<>>
    /\ bpc = "loop"
    /\ MatchIdle
    /\ ExtractIdle

\* lines 156-158: the next item of xls.items()
BNextSheet ==
    /\ bpc = "loop"
    /\ si < Len(xls)
    /\ si' = si + 1
    /\ loop_name' = xls[si + 1].name
    /\ df' = FillNa(xls[si + 1].rows)
    /\ applied' = <<>>
    /\ bpc' = "apply"
    /\ UNCHANGED <<xls, written, mvars, evars>>

\* lines 161-164: df.apply calls process_row on the next row
BProcessRow ==
    /\ bpc = "apply"
    /\ Len(applied) < Len(df)
    /\ applied' = Append(applied, process_row(loop_name, df[Len(applied) + 1]))
    /\ UNCHANGED <<xls, si, loop_name, df, written, bpc, mvars, evars>>

\* lines 164-167: the new column, and the sheet written under its name
BWriteSheet ==
    /\ bpc = "apply"
    /\ Len(applied) = Len(df)
    /\ written' = Append(written, [name |-> loop_name, rows |-> df, ids |-> applied])
    /\ bpc' = "loop"
    /\ UNCHANGED <<xls, si, loop_name, df, applied, mvars, evars>>

\* line 169
BSave ==
    /\ bpc = "loop"
    /\ si = Len(xls)
    /\ bpc' = "saved"
    /\ UNCHANGED <<xls, si, loop_name, df, applied, written, mvars, evars>>

NextBook == BNextSheet \/ BProcessRow \/ BWriteSheet \/ BSave

SpecBook == InitBook /\ [][NextBook]_vars

\* ------------------------------------------------------------------------
\* Properties of the dispatcher (Spec)
\* ------------------------------------------------------------------------
\* keyword k is contained in the uppercased sheet name
Kw(k) == Contains(Upper(sheet_name), k)

\* the keyword condition of row n of the dispatch table; acc is the keyword
\* for the accessories of DELL
TableCond(n, acc) ==
    CASE n = 1 -> Kw("UPS")
      [] n = 2 -> Kw("MICROSOFT") \/ Kw("ASUS")
      [] n = 3 -> Kw("LENOVO") /\ (Kw("NOTEBOOK") \/ Kw("OPTION"))
      [] n = 4 -> Kw("LENOVO")
      [] n = 5 -> Kw("HP") /\ Kw("MONITOR")
      [] n = 6 -> Kw("HP") /\ (Kw("SERVER") \/ Kw("PART"))
      [] n = 7 -> Kw("HP") /\ (Kw("NOTEBOOK") \/ Kw("WORKSTATION") \/ Kw("OPTION"))
      [] n = 8 -> Kw("HP") /\ (Kw("PCS") \/ Kw("AIO") \/ Kw("WORKSTATION"))
      [] n = 9 -> Kw("DELL") /\ (Kw("MONITOR") \/ Kw(acc))
      [] n = 10 -> Kw("CONSUMER") \/ Kw("AIO") \/ Kw("GAMING")
      [] OTHER -> TRUE

FirstRule(acc) == SetMin({n \in 1..11 : TableCond(n, acc)})

\* the first of the values of q that is an identifier, None when none is
RECURSIVE FirstFound(_)
FirstFound(q) ==
    IF q = <<>> THEN None
    ELSE IF Head(q) # None /\ Head(q).v # "" THEN Head(q)
    ELSE FirstFound(Tail(q))

Generic(d) ==
    FirstFound(<<find_parenthetical_id(d), find_hp_monitor_id(d), find_dell_model_like(d)>>)

\* the strategy of row n of the dispatch table, on the resolved fields
Strategy(n) ==
    LET d == desc.v
        paren == find_parenthetical_id(d)
    IN CASE n = 1 -> FirstFound(<<ref>>)
         [] n = 2 -> FirstFound(<<Generic(d), IF Upper(part.v) = "NEW" THEN None ELSE part>>)
         [] n \in {3, 4, 9} -> FirstFound(<<Generic(d), part>>)
         [] n = 5 -> FirstFound(<<find_hp_monitor_id(d), paren, find_dell_model_like(d)>>)
         [] n \in {6, 8, 10} -> FirstFound(<<paren, Generic(d)>>)
         [] n = 7 -> FirstFound(<<phrase_before_first_comma(d), Generic(d)>>)
         [] OTHER -> FirstFound(<<Generic(d), part, ref>>)

\* C1 as stated, with ACCESSORIES the keyword of the DELL row.
C1_AsStated ==
    pc = "done" => result = Strategy(FirstRule("ACCESSORIES"))

\* C1: for every sheet name and row the result is that of the strategy of the
\* first row of the dispatch table whose keywords the uppercased sheet name
\* contains, the DELL row being DELL + (MONITOR or ACCESSOR); no later row
\* contributes.
C1_FirstMatchingRule ==
    pc = "done" => result = Strategy(FirstRule("ACCESSOR"))

\* two rows of the table match, their strategies differ on the row, and the
\* result is that of the first
C1_Witness ==
    /\ pc = "done"
    /\ \E n \in 1..10 :
           /\ n > FirstRule("ACCESSOR")
           /\ TableCond(n, "ACCESSOR")
           /\ Strategy(n) # Strategy(FirstRule("ACCESSOR"))
    /\ result = Strategy(FirstRule("ACCESSOR"))
    /\ result # None

\* C3: on a sheet of HP and MONITOR with no keyword of an earlier row, the
\* result is the token of the hash-suffixed matcher whenever it finds one,
\* the parenthetical code only when it finds none, and the alphanumeric token
\* only when both find nothing.
C3_HashThenParenThenToken ==
    (/\ pc = "done"
     /\ Kw("HP") /\ Kw("MONITOR")
     /\ ~Kw("UPS") /\ ~Kw("MICROSOFT") /\ ~Kw("ASUS") /\ ~Kw("LENOVO"))
    => LET hash == find_hp_monitor_id(desc.v)
           paren == find_parenthetical_id(desc.v)
       IN result = IF hash # None THEN hash
                   ELSE IF paren # None THEN paren
                   ELSE find_dell_model_like(desc.v)

\* the three matchers find three different identifiers, the hash-suffixed one wins
C3_Witness ==
    /\ pc = "done"
    /\ Kw("HP") /\ Kw("MONITOR")
    /\ FirstRule("ACCESSOR") = 5
    /\ find_hp_monitor_id(desc.v) # None
    /\ find_parenthetical_id(desc.v) \notin {None, find_hp_monitor_id(desc.v)}
    /\ find_dell_model_like(desc.v) \notin {None, find_hp_monitor_id(desc.v)}
    /\ result = find_hp_monitor_id(desc.v)

\* the result of the no-match row: generic, else part number, else reference
NoMatchResult ==
    IF Generic(desc.v) # None THEN Generic(desc.v)
    ELSE IF part.v # "" THEN part
    ELSE IF ref.v # "" THEN ref
    ELSE None

\* C4 as stated: a name with DELL but neither MONITOR nor ACCESSORIES, and no
\* keywords of another row, gets the result of the no-match row.
C4_AsStated ==
    (pc = "done" /\ FirstRule("ACCESSORIES") = 11) => result = NoMatchResult

\* C4: a sheet name that satisfies no keyword condition of the table, the
\* DELL row being DELL + (MONITOR or ACCESSOR), gets the composite generic
\* match on the description, else the part number if non-empty, else the
\* reference if non-empty, else nothing.
C4_NoMatchFallsToReference ==
    (pc = "done" /\ FirstRule("ACCESSOR") = 11) => result = NoMatchResult

\* a sheet of DELL without MONITOR or ACCESSOR, no match in the description,
\* no part number: the reference is the result
C4_Witness ==
    /\ pc = "done"
    /\ Kw("DELL") /\ FirstRule("ACCESSOR") = 11
    /\ Generic(desc.v) = None /\ part.v = "" /\ ref.v # ""
    /\ result = ref

\* the trimmed text before the first comma of d, d when it has no comma
HeadOf(d) ==
    LET commas == {i \in 1..Len(d) : Ch(d, i) = ","}
        head == IF commas = {} THEN d ELSE SubSeq(d, 1, SetMin(commas) - 1)
    IN Strip(head)

C2_AsStated ==
    (pc = "done" /\ Kw("UPS") /\ ResolveRef(row).t \in {"str", "none"})
    => result = IF ResolveRef(row).v # "" THEN ResolveRef(row) ELSE None

\* C2: on a sheet whose name contains UPS the result is the text of the
\* row's reference field without its leading and trailing whitespace when
\* that is non-empty, and nothing when the field is empty, blank or missing,
\* whatever the description and the part number.
C2_UpsReturnsTrimmedReference ==
    (pc = "done" /\ Kw("UPS") /\ ResolveRef(row).t \in {"str", "none"})
    => result = IF Strip(ResolveRef(row).v) # "" THEN Str(Strip(ResolveRef(row).v))
                ELSE None

\* a UPS sheet, a row with a description and a part number that hold
\* identifiers: the reference is the result
C2_Witness ==
    /\ pc = "done"
    /\ Kw("UPS")
    /\ generic_from_description(desc.v) # None /\ part.v # ""
    /\ ResolveRef(row) = Str(" UPS1234 ")
    /\ result = Str("UPS1234")

\* C6: the call is total: on every sheet name and row (empty, positional,
\* with missing, empty or non-text cells) no step of it raises, and it ends by
\* returning an identifier or nothing.
C6_NeverRaises ==
    /\ result # Raise
    /\ desc # Raise /\ part # Raise /\ ref # Raise
    /\ pc \in {"resolve", "dispatch", "done"}
    /\ pc = "done" => result.t \in {"none", "str"}

\* a row of positional keys only, with a missing description and a part
\* number that is no text: the call returns
C6_Witness ==
    /\ pc = "done"
    /\ \A i \in 1..Len(row) : row[i][1].t = "int"
    /\ ResolveDesc(row) = None
    /\ ResolvePart(row).t = "int"
    /\ result.t = "str"

\* C10: the result is either absent or a non-empty text with no leading and
\* no trailing whitespace, whichever rule and fallback produced it.
C10_NoneOrTrimmedNonEmpty ==
    pc = "done" =>
        \/ result = None
        \/ /\ result.t = "str"
           /\ result.v # ""
           /\ ~IsSpace(Ch(result.v, 1))
           /\ ~IsSpace(Ch(result.v, Len(result.v)))

\* the result comes from a padded part-number cell, the last fallback but one
C10_Witness ==
    /\ pc = "done"
    /\ ResolvePart(row) = Str("PN-77\t")
    /\ Generic(desc.v) = None
    /\ result = Str("PN-77")

\* ------------------------------------------------------------------------
\* Properties of the alphanumeric-token matcher (SpecMatch)
\* ------------------------------------------------------------------------
\* C5: for every text and every token x of the denylist, the
\* alphanumeric-token matcher never returns x, also when x is the only token
\* of the text with the length and the shape of a token.
C5_NeverDenylisted ==
    mpc = "done" => (mres = None \/ mres.v \notin BANNED_TOKENS)

\* a denylisted word is the only token found, and nothing is returned
C5_Witness ==
    /\ mpc = "done"
    /\ Len(tokens) = 1 /\ tokens[1] \in BANNED_TOKENS
    /\ mres = None

\* the maximal runs <<first, last>> of letters and digits of u, at least 5 long
WordRuns(u) ==
    LET sep(i) == i < 1 \/ i > Len(u) \/ ~IsAlnum(Ch(u, i))
        last(i) == SetMin({j \in i..Len(u) : sep(j + 1)})
    IN {<<i, last(i)>> : i \in {i \in 1..Len(u) : ~sep(i) /\ sep(i - 1) /\ last(i) - i >= 4}}

\* 1-2 digits + YRS
YrsForm(t) ==
    \E n \in {1, 2} :
        /\ Len(t) = n + 3
        /\ SubSeq(t, n + 1, n + 3) = "YRS"
        /\ \A i \in 1..n : Ch(t, i) \in DigitSet

\* the run of S that starts last
LastRun(S) == CHOOSE r \in S : \A q \in S : q[1] <= r[1]

\* C8: the matcher keeps the whole-word tokens of at least 5 letters/digits
\* that hold a letter and a digit, are not denylisted and are not 1-2 digits
\* + YRS; it returns the last kept token that starts with P, U, S, E or A if
\* there is one, else the last kept token, else nothing.
C8_LastPreferredElseLast ==
    mpc = "done" =>
        LET u == Upper(text)
            tok(r) == SubSeq(u, r[1], r[2])
            kept == {r \in WordRuns(u) : /\ HasLetter(tok(r)) /\ HasDigit(tok(r))
                                         /\ tok(r) \notin BANNED_TOKENS
                                         /\ ~YrsForm(tok(r))}
            pref == {r \in kept : Ch(u, r[1]) \in {"P", "U", "S", "E", "A"}}
        IN mres = IF pref # {} THEN Str(tok(LastRun(pref)))
                  ELSE IF kept # {} THEN Str(tok(LastRun(kept)))
                  ELSE None

\* a kept token with a preferred first character wins over a later kept token
C8_Witness ==
    /\ mpc = "done"
    /\ Len(filtered) = 2
    /\ IsPreferred(filtered[1]) /\ ~IsPreferred(filtered[2])
    /\ mres = Str(filtered[1])

=============================================================================
